---- MODULE Spec2Model ----
(***************************************************************************)
(* A model of the ingestion-and-retrieval pipeline of aws-rag:             *)
(*   - the chunker          (src/utils/text_processing.py)                 *)
(*   - the answer pipeline  (src/utils/rag.py)                             *)
(*   - the vector store     (src/utils/vector_store.py)                    *)
(*   - the section builder  (src/utils/scraper.py, src/db/models/section.py,*)
(*                           src/pages/1_Settings.py, src/utils/database.py)*)
(*   - the chat page        (src/streamlitapp.py)                          *)
(* Each component has its own specification over the shared variables; the *)
(* variables of the other components keep their initial values.            *)
(***************************************************************************)
EXTENDS Integers, Sequences, FiniteSets, TLC

VARIABLES
    \* ---- chunker: one run of chunk_section_content ----
    raw,          \* the `content` argument of the outermost call
    chunk_size,   \* the `chunk_size` argument (tokens)
    overlap,      \* the `overlap` argument (tokens)
    cpc,          \* where the run is: "call", "loop", "returned", or the exception raised
    carg,         \* the text handed to the call that is about to start
    cstack,       \* the activation records of the calls inside their while loop
    cresult,      \* the list returned by the outermost call
    cranges,      \* where in the normalized text each chunk of cresult was cut from
    \* ---- answer pipeline: st.session_state and one get_answer call ----
    llm_history,  \* st.session_state.llm_history
    ui_messages,  \* st.session_state.ui_messages
    used_chunks,  \* st.session_state.used_chunks
    rpc,          \* "idle", or "generating" while get_answer awaits the model
    call,         \* the get_answer call in progress or last completed
    response,     \* the RAGResponse the last get_answer returned
    indexed,      \* the chunks the vector search finds for the question
    llm_up,       \* whether the language-model call succeeds
    env_changes,  \* how often the surroundings (index, model) have changed
    \* ---- chat page: the conversations and whose turn each record is ----
    conversations,            \* the ids of the rows of table conversations
    conversation_seq,         \* the AUTOINCREMENT counter of conversations
    current_conversation_id,  \* st.session_state.current_conversation_id
    history_conv,             \* for each llm_history entry, the conversation it was recorded in
    used_conv,                \* for each used_chunks hash, the conversation it was added in
    \* ---- vector store: the "aws_docs" collection and one VectorStore call ----
    collection,   \* chunk id -> [document, metadata]
    now,          \* the clock datetime.now() reads
    vs_call,      \* the VectorStore call last made, with its arguments
    vs_ret,       \* what that call returned
    \* ---- section builder: the SQLite tables and one Settings-page handler ----
    web,             \* the headings of the page each managed URL points at
    urls,            \* table urls: id -> [last_scraped]
    url_seq,         \* the AUTOINCREMENT counter of urls
    sections,        \* table sections: a set of rows
    section_seq,     \* the AUTOINCREMENT counter of sections
    saved_sections,  \* what Section.get_by_url returned to the last scrape
    scrape_call      \* the scrape last run, until another handler changes the tables

chunkVars == <<raw, chunk_size, overlap, cpc, carg, cstack, cresult, cranges>>

ragVars == <<llm_history, ui_messages, used_chunks, rpc, call, response,
             indexed, llm_up, env_changes>>

storeVars == <<collection, now, vs_call, vs_ret>>

dbVars == <<web, urls, url_seq, sections, section_seq, saved_sections, scrape_call>>

chatVars == <<conversations, conversation_seq, current_conversation_id,
              history_conv, used_conv>>

vars == <<chunkVars, ragVars, storeVars, dbVars, chatVars>>

\* what the actions of one component leave alone
notChunkVars == <<ragVars, storeVars, dbVars, chatVars>>
notRagVars == <<chunkVars, storeVars, dbVars>>
notStoreVars == <<chunkVars, ragVars, dbVars, chatVars>>

(***************************************************************************)
(* Python strings are modelled as sequences of one-character strings, with *)
(* Python's 0-based offsets, negative-index wrap-around and slice clamping.*)
(***************************************************************************)
Min(S) == CHOOSE x \in S : \A y \in S : x <= y

isspace(ch) == ch \in {" ", "\n"}

\* An index i is legal for c[i] when -len <= i < len.
InRange(c, i) == -Len(c) <= i /\ i < Len(c)

\* c[i], for a legal i (negative i counts from the end).
At(c, i) == c[(IF i < 0 THEN i + Len(c) ELSE i) + 1]

\* A slice bound as Python normalises it: negative counts from the end, then clamp.
SliceIdx(i, n) ==
    IF i < 0 THEN (IF i + n < 0 THEN 0 ELSE i + n)
    ELSE IF i > n THEN n ELSE i

\* c[s:e]
Slice(c, s, e) ==
    LET a == SliceIdx(s, Len(c))
        b == SliceIdx(e, Len(c))
    IN  IF a >= b THEN <<>> ELSE SubSeq(c, a + 1, b)

\* c.find(ch, s, e): the lowest offset of ch within c[s:e], or -1.
Find(c, ch, s, e) ==
    LET a == SliceIdx(s, Len(c))
        b == SliceIdx(e, Len(c))
        hits == {i \in a..(b - 1) : c[i + 1] = ch}
    IN  IF hits = {} THEN -1 ELSE Min(hits)

\* c.strip()
strip(c) ==
    LET keep == {i \in 1..Len(c) : ~isspace(c[i])}
    IN  IF keep = {} THEN <<>>
        ELSE SubSeq(c, Min(keep), CHOOSE j \in keep : \A k \in keep : k <= j)

\* re.sub(r'\s+', ' ', c): every run of whitespace becomes one space.
RECURSIVE CollapseSpaces(_)
CollapseSpaces(c) ==
    IF c = <<>> THEN <<>>
    ELSE IF ~isspace(c[1]) THEN <<c[1]>> \o CollapseSpaces(Tail(c))
    ELSE IF Len(c) > 1 /\ isspace(c[2]) THEN CollapseSpaces(Tail(c))
    ELSE <<" ">> \o CollapseSpaces(Tail(c))

\* line 26: content = re.sub(r'\s+', ' ', content).strip()
Normalize(c) == strip(CollapseSpaces(c))

(***************************************************************************)
(* estimate_tokens counts the tokens of the cl100k_base encoding.  The     *)
(* encoder is a library; what the chunker depends on is that the count is  *)
(* 0 exactly for the empty string and that it is not a fixed multiple of   *)
(* the length: ordinary prose runs at about chars_per_token characters per *)
(* token, while symbols and non-Latin script ("#") cost a token each.      *)
(* Counted in quarter tokens and rounded up.                               *)
(***************************************************************************)
chars_per_token == 4

RECURSIVE QuarterTokens(_)
QuarterTokens(c) ==
    IF c = <<>> THEN 0
    ELSE (IF c[1] = "#" THEN chars_per_token ELSE 1) + QuarterTokens(Tail(c))

estimate_tokens(c) == (QuarterTokens(c) + chars_per_token - 1) \div chars_per_token

char_chunk_size == chunk_size * chars_per_token

\* a step that would leave `overlap` tokens out between two chunks
char_gap == 0 - overlap * chars_per_token

char_overlap    == overlap * chars_per_token

\* line 52: how far around `end` a sentence boundary is looked for
PeriodWindow == 100

\* lines 57-58: while end > start and not content[end-1].isspace(): end -= 1
\* (err: content[end-1] is out of range and Python raises IndexError)
RECURSIVE WordBoundaryBack(_, _, _)
WordBoundaryBack(c, start, end) ==
    IF ~(end > start) THEN [err |-> FALSE, end |-> end]
    ELSE IF ~InRange(c, end - 1) THEN [err |-> TRUE, end |-> end]
    ELSE IF isspace(At(c, end - 1)) THEN [err |-> FALSE, end |-> end]
    ELSE WordBoundaryBack(c, start, end - 1)

\* lines 63-64: while end < len(content) and not content[end].isspace(): end += 1
RECURSIVE WordBoundaryFwd(_, _)
WordBoundaryFwd(c, end) ==
    IF ~(end < Len(c)) THEN [err |-> FALSE, end |-> end]
    ELSE IF ~InRange(c, end) THEN [err |-> TRUE, end |-> end]
    ELSE IF isspace(At(c, end)) THEN [err |-> FALSE, end |-> end]
    ELSE WordBoundaryFwd(c, end + 1)

\* lines 42, 52-64: the cut offset of one iteration that is not the last
CutEnd(c, start) ==
    LET end0 == start + char_chunk_size
        next_period == Find(c, ".", end0 - PeriodWindow, end0 + PeriodWindow)
        back == WordBoundaryBack(c, start, end0)
    IN  IF next_period # -1 THEN [err |-> FALSE, end |-> next_period + 1]
        ELSE IF back.err THEN back
        ELSE IF back.end = start THEN WordBoundaryFwd(c, start + char_chunk_size)
        ELSE back

\* lines 67-68 and 47-48: chunks.append(chunk) unless the chunk is empty
AppendChunk(chunks, chunk) ==
    IF estimate_tokens(chunk) > 0 THEN Append(chunks, chunk) ELSE chunks

\* the range of a chunk is recorded exactly when the chunk is appended
AppendRange(ranges, chunk, range) ==
    IF estimate_tokens(chunk) > 0 THEN Append(ranges, range) ELSE ranges

\* line 74: the last chunk is more than 1.5 times the budget
Oversized(chunks) ==
    Len(chunks) > 0 /\ 2 * estimate_tokens(chunks[Len(chunks)]) > 3 * chunk_size

\* What a call does is a function of its text and the two budgets.  A call
\* on the very text of a call it is nested in therefore repeats that call's
\* steps and nests again, without end: the interpreter raises RecursionError.
NestsForever(content) == \E k \in 1..Len(cstack) : cstack[k].content = content

Top == cstack[Len(cstack)]

Max(S) == CHOOSE x \in S : \A y \in S : y <= x

\* Where the text of content[s:e].strip() lies in the normalized text of the
\* outermost call: the offsets <<first, last + 1>> of its characters, for a
\* call whose own text begins at offset `base`.
SourceRange(c, s, e, base) ==
    LET a == SliceIdx(s, Len(c))
        b == SliceIdx(e, Len(c))
        keep == {i \in a..(b - 1) : ~isspace(c[i + 1])}
    IN  IF keep = {} THEN <<base + a, base + a>>
        ELSE <<base + Min(keep), base + Max(keep) + 1>>

\* The outermost call returns `list` to its caller; an inner call returns it to
\* line 77, where line 82 extends the caller's chunks with it.
Return(list, ranges) ==
    IF cstack = <<>>
    THEN /\ cpc' = "returned"
         /\ cresult' = list
         /\ cranges' = ranges
         /\ UNCHANGED cstack
    ELSE /\ cpc' = "loop"
         /\ cstack' = [cstack EXCEPT ![Len(cstack)].chunks = @ \o list,
                                      ![Len(cstack)].ranges = @ \o ranges]
         /\ UNCHANGED <<cresult, cranges>>

\* lines 25-38: the entry of chunk_section_content, up to the while loop
ChunkCall ==
    /\ cpc = "call"
    /\ LET content == Normalize(carg)
           base == IF cstack = <<>> THEN 0 ELSE Top.popped[1]
       IN  IF estimate_tokens(content) <= chunk_size
           THEN Return(<<content>>, << <<base, base + Len(content)>> >>)
           ELSE IF NestsForever(content)
           THEN /\ cpc' = "RecursionError"
                /\ UNCHANGED <<cstack, cresult, cranges>>
           ELSE /\ cpc' = "loop"
                /\ cstack' = Append(cstack,
                       [content |-> content, start |-> 0, chunks |-> <<>>, visited |-> {},
                        base |-> base, ranges |-> <<>>, popped |-> <<0, 0>>])
                /\ UNCHANGED <<cresult, cranges>>
    /\ UNCHANGED <<raw, chunk_size, overlap, carg, notChunkVars>>

\* lines 40-49: the iteration whose window reaches the end of the text
ChunkFinal ==
    /\ cpc = "loop"
    /\ Top.start < Len(Top.content)
    /\ Top.start + char_chunk_size >= Len(Top.content)
    /\ LET final_chunk == strip(Slice(Top.content, Top.start, Len(Top.content)))
           list == AppendChunk(Top.chunks, final_chunk)
           ranges == AppendRange(Top.ranges, final_chunk,
                         SourceRange(Top.content, Top.start, Len(Top.content), Top.base))
       IN  IF Len(cstack) = 1
           THEN /\ cpc' = "returned"
                /\ cresult' = list
                /\ cranges' = ranges
                /\ cstack' = <<>>
           ELSE /\ cpc' = "loop"
                /\ cstack' = [SubSeq(cstack, 1, Len(cstack) - 1)
                                 EXCEPT ![Len(cstack) - 1].chunks = @ \o list,
                                        ![Len(cstack) - 1].ranges = @ \o ranges]
                /\ UNCHANGED <<cresult, cranges>>
    /\ UNCHANGED <<raw, chunk_size, overlap, carg, notChunkVars>>

\* line 40 with start >= len(content): the loop ends and line 84 returns chunks
ChunkExit ==
    /\ cpc = "loop"
    /\ ~(Top.start < Len(Top.content))
    /\ IF Len(cstack) = 1
       THEN /\ cpc' = "returned"
            /\ cresult' = Top.chunks
            /\ cranges' = Top.ranges
            /\ cstack' = <<>>
       ELSE /\ cpc' = "loop"
            /\ cstack' = [SubSeq(cstack, 1, Len(cstack) - 1)
                             EXCEPT ![Len(cstack) - 1].chunks = @ \o Top.chunks,
                                    ![Len(cstack) - 1].ranges = @ \o Top.ranges]
            /\ UNCHANGED <<cresult, cranges>>
    /\ UNCHANGED <<raw, chunk_size, overlap, carg, notChunkVars>>

\* lines 40-82: an iteration that cuts inside the text.  The next offset depends
\* on the text and the current offset alone, so an iteration that starts at an
\* offset the loop has already started from repeats for ever: "diverged".
ChunkIter ==
    /\ cpc = "loop"
    /\ Top.start < Len(Top.content)
    /\ Top.start + char_chunk_size < Len(Top.content)
    /\ LET cut == CutEnd(Top.content, Top.start)
           chunk == strip(Slice(Top.content, Top.start, cut.end))
           chunks1 == AppendChunk(Top.chunks, chunk)
           ranges1 == AppendRange(Top.ranges, chunk,
                          SourceRange(Top.content, Top.start, cut.end, Top.base))
           frame == [Top EXCEPT !.start = cut.end - char_overlap,
                                !.visited = @ \cup {Top.start}]
       IN  IF Top.start \in Top.visited
           THEN /\ cpc' = "diverged"
                /\ UNCHANGED <<cstack, carg>>
           ELSE IF cut.err
           THEN /\ cpc' = "IndexError"
                /\ UNCHANGED <<cstack, carg>>
           ELSE IF Oversized(chunks1)
           THEN /\ cpc' = "call"
                /\ carg' = chunks1[Len(chunks1)]
                /\ cstack' = [cstack EXCEPT ![Len(cstack)] =
                       [frame EXCEPT !.chunks = SubSeq(chunks1, 1, Len(chunks1) - 1),
                                     !.ranges = SubSeq(ranges1, 1, Len(ranges1) - 1),
                                     !.popped = ranges1[Len(ranges1)]]]
           ELSE /\ cpc' = "loop"
                /\ cstack' = [cstack EXCEPT ![Len(cstack)] =
                       [frame EXCEPT !.chunks = chunks1, !.ranges = ranges1]]
                /\ UNCHANGED carg
    /\ UNCHANGED <<raw, chunk_size, overlap, cresult, cranges, notChunkVars>>

\* The store at rest, for the runs of the other components.
StoreIdle ==
    /\ collection = <<>> /\ now = 0 /\ vs_call = [op |-> "none"] /\ vs_ret = TRUE

\* lines 13-17 of src/db/connection.py: the tables as init_db creates them
DbFresh ==
    /\ web = <<>>
    /\ urls = <<>> /\ url_seq = 0
    /\ sections = {} /\ section_seq = 0
    /\ saved_sections = <<>> /\ scrape_call = [op |-> "none"]

\* The pipeline at rest, for the runs of the other components.
RagIdle ==
    /\ llm_history = <<>> /\ ui_messages = <<>> /\ used_chunks = {}
    /\ rpc = "idle" /\ call = <<>> /\ response = <<>>
    /\ indexed = {} /\ llm_up = TRUE /\ env_changes = 0
    /\ conversations = {} /\ conversation_seq = 0 /\ current_conversation_id = 0
    /\ history_conv = <<>> /\ used_conv = <<>>

(***************************************************************************)
(* The inputs of the chunker: texts made of at most MaxPieces pieces, and  *)
(* small token budgets.                                                    *)
(***************************************************************************)
MaxPieces == 5
MaxChunkSize == 2
MaxOverlap == 1

Pieces == { <<"a">>, <<"a", "a", "a", "a">>, <<" ">>, <<".">>, <<"#">> }

RECURSIVE Texts(_)
Texts(n) ==
    IF n = 0 THEN { <<>> }
    ELSE Texts(n - 1) \cup { t \o p : t \in Texts(n - 1), p \in Pieces }

ChunkInit ==
    /\ raw \in Texts(MaxPieces)
    /\ chunk_size \in 1..MaxChunkSize
    /\ overlap \in 0..MaxOverlap
    /\ cpc = "call"
    /\ carg = raw
    /\ cstack = <<>>
    /\ cresult = <<>>
    /\ cranges = <<>>
    /\ RagIdle
    /\ StoreIdle
    /\ DbFresh

ChunkNext == ChunkCall \/ ChunkIter \/ ChunkFinal \/ ChunkExit

ChunkSpec == ChunkInit /\ [][ChunkNext]_vars

(***************************************************************************)
(* The answer pipeline (RAGPipeline).  Texts are opaque; a message content *)
(* is a text together with the title -> URL links written into it.  An     *)
(* absent Optional (context, sources) is the empty sequence, an absent     *)
(* confidence is NoConfidence.                                             *)
(***************************************************************************)
Msg(text) == [text |-> text, links |-> {}]

NoConfidence == [num |-> 0, den |-> 0]
Zero == [num |-> 0, den |-> 1]

SystemItem == [role |-> "system", content |-> Msg("You are an AWS documentation assistant"),
               context |-> <<>>]

\* line 283: _prune_histories(self, max_turns: int = 10)
max_turns == 10

\* The two chunks of the index, as search_similar returns them for the question
\* (relevance in hundredths).
ChunkA == [id |-> "1_0", content |-> "text A",
           metadata |-> [title |-> "S3", url |-> "u#s3", path |-> "S3"], relevance |-> 80]
ChunkB == [id |-> "1_1", content |-> "text B",
           metadata |-> [title |-> "EC2", url |-> "u#ec2", path |-> "EC2"], relevance |-> 40]

\* What the index can hold, and the result list of the search for each: most
\* relevant first.
IndexContents == { {}, {ChunkA}, {ChunkB}, {ChunkA, ChunkB} }

SearchHits(ix) ==
    (IF ChunkA \in ix THEN <<ChunkA>> ELSE <<>>) \o (IF ChunkB \in ix THEN <<ChunkB>> ELSE <<>>)

Questions == {"q"}

\* lines 176-181: chunks = self.vector_store.search_similar(...).  The list is
\* the one the vector store has just returned when the search ran on the
\* collection, and the hits of the index contents otherwise.
retrieved == IF vs_call.op = "search" THEN vs_ret ELSE SearchHits(indexed)

\* lines 91-95: md5 of content and sorted metadata, taken to be collision-free
_hash_chunk(chunk) == <<chunk.content, chunk.metadata>>

\* lines 97-105: the chunks not yet in `used`, each added to `used` as it is met
RECURSIVE FilterNewFrom(_, _, _)
FilterNewFrom(chunks, used, new_chunks) ==
    IF chunks = <<>> THEN [new_chunks |-> new_chunks, used |-> used]
    ELSE IF _hash_chunk(Head(chunks)) \notin used
    THEN FilterNewFrom(Tail(chunks), used \cup {_hash_chunk(Head(chunks))},
                       Append(new_chunks, Head(chunks)))
    ELSE FilterNewFrom(Tail(chunks), used, new_chunks)

_filter_new_chunks(chunks, used) == FilterNewFrom(chunks, used, <<>>)

InList(x, list) == \E j \in 1..Len(list) : list[j] = x

\* lines 122-129: one "[title]\ncontent" part per chunk, joined by blank lines.
\* Line 127 calls _filter_new_chunks(chunks) once per chunk, so the first
\* iteration puts every chunk into the used set.
RECURSIVE FormatContextFrom(_, _, _, _)
FormatContextFrom(chunks, i, used, parts) ==
    IF i > Len(chunks) THEN [context |-> parts, used |-> used]
    ELSE LET f == _filter_new_chunks(chunks, used)
             prefix == IF InList(chunks[i], f.new_chunks) THEN "[NEW] " ELSE ""
         IN  FormatContextFrom(chunks, i + 1, f.used,
                 Append(parts, [prefix |-> prefix,
                                title |-> chunks[i].metadata.title,
                                content |-> chunks[i].content]))

format_context(chunks, used) == FormatContextFrom(chunks, 1, used, <<>>)

\* lines 131-147: one line per source.  Line 140 looks the hash (a string) up
\* in the list of chunks _filter_new_chunks returns, where it never is.
RECURSIVE FormatSourcesFrom(_, _, _, _)
FormatSourcesFrom(sources, i, used, lines) ==
    IF i > Len(sources) THEN [text |-> lines, used |-> used]
    ELSE LET f == _filter_new_chunks(<<sources[i]>>, used)
             is_new == FALSE
         IN  FormatSourcesFrom(sources, i + 1, f.used,
                 Append(lines, [prefix |-> IF is_new THEN "[NEW] " ELSE "",
                                title |-> sources[i].metadata.title,
                                url |-> sources[i].metadata.url,
                                path |-> sources[i].metadata.path,
                                relevance |-> sources[i].relevance]))

format_sources(sources, used) == FormatSourcesFrom(sources, 1, used, <<>>)

\* lines 80-89: title -> url, a later chunk replacing an earlier one of its title
_create_source_map(chunks) ==
    { <<chunks[i].metadata.title, chunks[i].metadata.url>> : i \in
        { i \in 1..Len(chunks) :
            /\ chunks[i].metadata.url # "" /\ chunks[i].metadata.title # ""
            /\ \A j \in (i + 1)..Len(chunks) :
                 chunks[j].metadata.title # chunks[i].metadata.title } }

\* lines 107-120: the bracketed titles of the answer become links to the sources
_process_response(answer, source_map) == [text |-> answer, links |-> source_map]

RECURSIVE SumRelevance(_)
SumRelevance(chunks) ==
    IF chunks = <<>> THEN 0 ELSE Head(chunks).relevance + SumRelevance(Tail(chunks))

\* the relevance of the first, most relevant chunk alone
first_relevance(chunks) == [num |-> Head(chunks).relevance, den |-> 1]

\* line 210: sum(relevance) / len(chunks), kept as a fraction
avg_relevance(chunks) == [num |-> SumRelevance(chunks), den |-> Len(chunks)]

\* seq[-n:]
LastN(seq, n) == IF Len(seq) <= n THEN seq ELSE SubSeq(seq, Len(seq) - n + 1, Len(seq))

\* a pruning that keeps the last entries and nothing else
PruneLast(history) == LastN(history, max_turns * 2)

\* lines 286-290
PruneLLM(history) ==
    IF Len(history) > max_turns * 2 + 1
    THEN <<history[1]>> \o LastN(history, max_turns * 2)
    ELSE history

\* lines 293-294
PruneUI(messages) ==
    IF Len(messages) > max_turns * 2 THEN LastN(messages, max_turns * 2) ELSE messages

NoContextMsg == "I don't have enough context in my knowledge base to answer this question."
ErrorMsg == "Error in RAG pipeline: model call failed"

\* The longest history a question is still asked with, and how often the
\* surroundings change within one run.
MaxHistory == 23
MaxEnvChanges == 1

NoCall == [question |-> "", outcome |-> "none", used_before |-> {},
           history_before |-> <<>>, ui_before |-> <<>>, chunks |-> <<>>,
           context |-> <<>>, llm_invocations |-> 0]
NoResponse == [answer |-> Msg(""), sources |-> <<>>, confidence |-> NoConfidence]

NewCall(question, chunks) ==
    [question |-> question, outcome |-> "running", used_before |-> used_chunks,
     history_before |-> llm_history, ui_before |-> ui_messages, chunks |-> chunks,
     context |-> <<>>, llm_invocations |-> 0]

\* Every record of the session state is made in the conversation that is the
\* current one at that moment: `n` more history entries, and the hashes that
\* `used` holds beyond those already marked.
RecordedHere(n) == history_conv \o [i \in 1..n |-> current_conversation_id]

AddedHere(used) ==
    [h \in used |-> IF h \in DOMAIN used_conv THEN used_conv[h] ELSE current_conversation_id]

SameConversation == UNCHANGED <<conversations, conversation_seq, current_conversation_id>>

\* a short-circuit that returns the fixed answer and records no turn
AnswerNoContextUnrecorded ==
    /\ rpc = "idle"
    /\ Len(llm_history) <= MaxHistory
    /\ retrieved = <<>>
    /\ \E question \in Questions :
        /\ call' = [NewCall(question, <<>>) EXCEPT !.outcome = "no_context"]
        /\ response' = [answer |-> Msg(NoContextMsg), sources |-> <<>>, confidence |-> Zero]
    /\ SameConversation
    /\ UNCHANGED <<llm_history, ui_messages, history_conv, used_chunks, used_conv, rpc,
                   indexed, llm_up, env_changes, notRagVars>>

\* lines 173-184 and 245-262: get_answer when the search finds nothing
AnswerNoContext ==
    /\ rpc = "idle"
    /\ Len(llm_history) <= MaxHistory
    /\ retrieved = <<>>
    /\ \E question \in Questions :
        /\ llm_history' = llm_history \o
               << [role |-> "user", content |-> Msg(question), context |-> <<>>],
                  [role |-> "assistant", content |-> Msg(NoContextMsg), context |-> <<>>] >>
        /\ ui_messages' = ui_messages \o
               << [role |-> "user", content |-> Msg(question), sources |-> <<>>,
                   confidence |-> NoConfidence],
                  [role |-> "assistant", content |-> Msg(NoContextMsg), sources |-> <<>>,
                   confidence |-> Zero] >>
        /\ call' = [NewCall(question, <<>>) EXCEPT !.outcome = "no_context"]
        /\ response' = [answer |-> Msg(NoContextMsg), sources |-> <<>>, confidence |-> Zero]
    /\ history_conv' = RecordedHere(2)
    /\ SameConversation
    /\ UNCHANGED <<used_chunks, used_conv, rpc, indexed, llm_up, env_changes, notRagVars>>

\* lines 173-205: get_answer up to the await of the model call
AnswerBegin ==
    /\ rpc = "idle"
    /\ Len(llm_history) <= MaxHistory
    /\ retrieved # <<>>
    /\ \E question \in Questions :
        LET chunks == retrieved
            fc == format_context(chunks, used_chunks)
        IN  /\ used_chunks' = fc.used
            /\ llm_history' = Append(llm_history,
                   [role |-> "user", content |-> Msg(question), context |-> fc.context])
            /\ call' = [NewCall(question, chunks) EXCEPT !.context = fc.context,
                                                         !.llm_invocations = 1]
            /\ rpc' = "generating"
            /\ used_conv' = AddedHere(fc.used)
    /\ history_conv' = RecordedHere(1)
    /\ SameConversation
    /\ UNCHANGED <<ui_messages, response, indexed, llm_up, env_changes, notRagVars>>

\* lines 206-240: the model has answered
AnswerComplete ==
    /\ rpc = "generating"
    /\ llm_up
    /\ LET chunks == call.chunks
           processed_response == _process_response("answer", _create_source_map(chunks))
           fs == format_sources(chunks, used_chunks)
           history1 == Append(llm_history,
                   [role |-> "assistant", content |-> processed_response,
                    context |-> call.context])
           ui1 == ui_messages \o
               << [role |-> "user", content |-> Msg(call.question), sources |-> <<>>,
                   confidence |-> NoConfidence],
                  [role |-> "assistant", content |-> processed_response,
                   sources |-> fs.text, confidence |-> avg_relevance(chunks)] >>
       IN  /\ used_chunks' = fs.used
           /\ llm_history' = PruneLLM(history1)
           /\ ui_messages' = PruneUI(ui1)
           /\ response' = [answer |-> processed_response, sources |-> chunks,
                           confidence |-> avg_relevance(chunks)]
           /\ used_conv' = AddedHere(fs.used)
    /\ history_conv' = PruneLLM(RecordedHere(1))
    /\ SameConversation
    /\ call' = [call EXCEPT !.outcome = "answer"]
    /\ rpc' = "idle"
    /\ UNCHANGED <<indexed, llm_up, env_changes, notRagVars>>

\* lines 242-243 and 264-281: the model call raised
AnswerError ==
    /\ rpc = "generating"
    /\ ~llm_up
    /\ llm_history' = llm_history \o
           << [role |-> "user", content |-> Msg(call.question), context |-> <<>>],
              [role |-> "assistant", content |-> Msg(ErrorMsg), context |-> <<>>] >>
    /\ ui_messages' = ui_messages \o
           << [role |-> "user", content |-> Msg(call.question), sources |-> <<>>,
               confidence |-> NoConfidence],
              [role |-> "assistant", content |-> Msg(ErrorMsg), sources |-> <<>>,
               confidence |-> Zero] >>
    /\ response' = [answer |-> Msg(ErrorMsg), sources |-> <<>>, confidence |-> Zero]
    /\ call' = [call EXCEPT !.outcome = "error"]
    /\ rpc' = "idle"
    /\ history_conv' = RecordedHere(2)
    /\ SameConversation
    /\ UNCHANGED <<used_chunks, used_conv, indexed, llm_up, env_changes, notRagVars>>

\* lines 296-299
clear_history ==
    /\ rpc = "idle"
    /\ llm_history' = <<llm_history[1]>>
    /\ ui_messages' = <<>>
    /\ call' = [NoCall EXCEPT !.outcome = "cleared", !.used_before = used_chunks]
    /\ history_conv' = <<history_conv[1]>>
    /\ SameConversation
    /\ UNCHANGED <<used_chunks, used_conv, rpc, response, indexed, llm_up, env_changes,
                   notRagVars>>

\* Between two questions the index is re-built or the model service goes up or down.
EnvChange ==
    /\ rpc = "idle"
    /\ env_changes < MaxEnvChanges
    /\ \E ix \in IndexContents, up \in BOOLEAN :
        /\ <<ix, up>> # <<indexed, llm_up>>
        /\ indexed' = ix
        /\ llm_up' = up
    /\ env_changes' = env_changes + 1
    /\ UNCHANGED <<llm_history, ui_messages, used_chunks, rpc, call, response, notRagVars,
                   chatVars>>

\* lines 38-78: the session state a new RAGPipeline leaves
RagFresh ==
    /\ llm_history = <<SystemItem>>
    /\ ui_messages = <<>>
    /\ used_chunks = {}
    /\ rpc = "idle"
    /\ call = NoCall
    /\ response = NoResponse
    /\ env_changes = 0
    /\ history_conv = <<0>>
    /\ used_conv = <<>>

ChunkIdle ==
    /\ raw = <<>> /\ chunk_size = 1 /\ overlap = 0
    /\ cpc = "returned" /\ carg = <<>> /\ cstack = <<>> /\ cresult = <<>>
    /\ cranges = <<>>

\* src/streamlitapp.py lines 57-64: the one conversation of a new database
OneConversation ==
    /\ conversations = {1} /\ conversation_seq = 1 /\ current_conversation_id = 1

RagInit ==
    /\ RagFresh
    /\ OneConversation
    /\ indexed \in IndexContents
    /\ llm_up \in BOOLEAN
    /\ ChunkIdle
    /\ StoreIdle
    /\ DbFresh

RagNext ==
    \/ AnswerNoContext \/ AnswerBegin \/ AnswerComplete \/ AnswerError
    \/ clear_history \/ EnvChange

RagSpec == RagInit /\ [][RagNext]_vars

(***************************************************************************)
(* The chat page (src/streamlitapp.py).  initialize_components builds one  *)
(* RAGPipeline per browser session and keeps it in st.session_state; the   *)
(* sidebar and the Clear Chat button change current_conversation_id; a     *)
(* question is handed to that pipeline's get_answer.                       *)
(***************************************************************************)
MaxConversations == 3
MaxChatHistory == 5

\* Conversation.create(): a new row of table conversations (schema.py lines
\* 35-42), whose id is the next value of the AUTOINCREMENT counter
Conversation_create(seq) == seq + 1

\* lines 72-75: the New Conversation button
NewConversation ==
    /\ rpc = "idle"
    /\ conversation_seq < MaxConversations
    /\ LET new_conv == Conversation_create(conversation_seq)
       IN  /\ conversation_seq' = new_conv
           /\ conversations' = conversations \cup {new_conv}
           /\ current_conversation_id' = new_conv
    /\ UNCHANGED <<history_conv, used_conv, ragVars, notRagVars>>

\* lines 90-97: the button of a listed conversation
SelectConversation ==
    /\ rpc = "idle"
    /\ \E conv \in conversations :
        /\ conv # current_conversation_id
        /\ current_conversation_id' = conv
    /\ UNCHANGED <<conversations, conversation_seq, history_conv, used_conv,
                   ragVars, notRagVars>>

\* lines 316-319: the Clear Chat button
ClearChat ==
    /\ rpc = "idle"
    /\ conversation_seq < MaxConversations
    /\ LET new_conv == Conversation_create(conversation_seq)
       IN  /\ conversation_seq' = new_conv
           /\ conversations' = conversations \cup {new_conv}
           /\ current_conversation_id' = new_conv
    /\ call' = [NoCall EXCEPT !.outcome = "clear_chat", !.used_before = used_chunks]
    /\ UNCHANGED <<history_conv, used_conv, llm_history, ui_messages, used_chunks, rpc,
                   response, indexed, llm_up, env_changes, notRagVars>>

\* lines 222-243 and 293-305: a question typed into the input box
process_question ==
    /\ Len(llm_history) <= MaxChatHistory
    /\ (AnswerNoContext \/ AnswerBegin)

\* lines 16-32 and 42-64: a new browser session over a database that holds
\* one conversation or two; the page opens on one of them
ChatInit ==
    /\ RagFresh
    /\ indexed \in IndexContents
    /\ llm_up \in BOOLEAN
    /\ \E n \in 1..2 :
        /\ conversations = 1..n
        /\ conversation_seq = n
        /\ current_conversation_id \in 1..n
    /\ ChunkIdle
    /\ StoreIdle
    /\ DbFresh

ChatNext ==
    \/ process_question \/ AnswerComplete \/ AnswerError
    \/ NewConversation \/ SelectConversation \/ ClearChat

ChatSpec == ChatInit /\ [][ChatNext]_vars

(***************************************************************************)
(* A turn seen from its caller.  handle_input runs process_question to its *)
(* end with loop.run_until_complete, and get_answer awaits the model call  *)
(* of line 205 with no timeout and no deadline argument: the call returns, *)
(* raises, or stays pending.  The event loop resumes get_answer as soon as *)
(* the call has returned or raised, which is the fairness of LiveSpec.     *)
(***************************************************************************)

\* src/utils/rag.py line 205: the model service has taken the request and
\* sends no answer and no error; the await stays suspended
AnswerPending ==
    /\ rpc = "generating"
    /\ rpc' = "suspended"
    /\ UNCHANGED <<llm_history, ui_messages, used_chunks, call, response, indexed, llm_up,
                   env_changes, notRagVars, chatVars>>

LiveNext ==
    \/ process_question \/ AnswerComplete \/ AnswerError \/ AnswerPending
    \/ EnvChange

LiveSpec ==
    /\ RagInit
    /\ [][LiveNext]_vars
    /\ WF_vars(AnswerComplete)
    /\ WF_vars(AnswerError)

(***************************************************************************)
(* The vector store (VectorStore) over a ChromaDB collection.  A chunk id  *)
(* f"{url_id}_{i}" is the pair <<url_id, i>>.  Relevance is kept exact: in *)
(* thousandths before the size boost, in units of 1/(1000 * BoostUnit)     *)
(* after it.                                                               *)
(***************************************************************************)
UrlIds == {1, 2}

\* Identifiers that go on counting after the chunks already stored, as a store
\* that appends would give them.
appended_ids(n, url_id) ==
    [i \in 1..n |-> <<url_id, Cardinality(DOMAIN collection) + i - 1>>]

\* lines 54-57
chunk_ids(n, url_id) == [i \in 1..n |-> <<url_id, i - 1>>]

\* lines 61-68: {**chunk.metadata, "url_id": ..., "indexed_at": ...}
stored_metadata(metadata, url_id, at) ==
    [k \in DOMAIN metadata \cup {"url_id", "indexed_at"} |->
        IF k = "url_id" THEN url_id
        ELSE IF k = "indexed_at" THEN at
        ELSE metadata[k]]

\* an indexing that replaces what the source had: the chunks stored for
\* url_id are dropped and the new ones take their place
ReplaceSource(coll, chunks, url_id, at) ==
    LET ids == chunk_ids(Len(chunks), url_id)
        new == {ids[i] : i \in 1..Len(chunks)}
        others == {id \in DOMAIN coll : coll[id].metadata.url_id # url_id}
    IN  [id \in others \cup new |->
            IF id \in new
            THEN LET i == CHOOSE i \in 1..Len(chunks) : ids[i] = id
                 IN  [document |-> chunks[i].content,
                      metadata |-> stored_metadata(chunks[i].metadata, url_id, at)]
            ELSE coll[id]]

\* lines 74-78: collection.upsert(documents, ids, metadatas)
Upsert(coll, chunks, url_id, at) ==
    LET ids == chunk_ids(Len(chunks), url_id)
        new == {ids[i] : i \in 1..Len(chunks)}
    IN  [id \in DOMAIN coll \cup new |->
            IF id \in new
            THEN LET i == CHOOSE i \in 1..Len(chunks) : ids[i] = id
                 IN  [document |-> chunks[i].content,
                      metadata |-> stored_metadata(chunks[i].metadata, url_id, at)]
            ELSE coll[id]]

\* a delete that has lost its where clause
DeleteAll(coll, url_id) == <<>>

\* lines 155-157: collection.delete(where={"url_id": str(url_id)})
DeleteWhere(coll, url_id) ==
    [id \in {id \in DOMAIN coll : coll[id].metadata.url_id # url_id} |-> coll[id]]

\* The Documents handed to the store: a text and its metadata; token_count 0
\* stands for a chunk indexed without a token count.
StoreDoc(text, tokens) ==
    [content |-> text,
     metadata |-> [title |-> text, url |-> text, path |-> text, token_count |-> tokens]]

StoreDocs == { StoreDoc("short", 100), StoreDoc("long", 700) }

MaxDocs == 2

RECURSIVE DocLists(_)
DocLists(n) ==
    IF n = 0 THEN { <<>> }
    ELSE DocLists(n - 1) \cup { Append(l, d) : l \in DocLists(n - 1), d \in StoreDocs }

\* The second source is indexed with one chunk at most.
ListsFor(url_id) == IF url_id = 1 THEN DocLists(MaxDocs) ELSE DocLists(1)

MaxClock == 1

NoStoreCall == [op |-> "none"]

\* lines 41-80: add_section_chunks when the backend accepts the upsert
AddSectionChunks ==
    /\ \E url_id \in UrlIds : \E chunks \in ListsFor(url_id) :
        /\ collection' = IF chunks = <<>> THEN collection
                         ELSE Upsert(collection, chunks, url_id, now)
        /\ vs_call' = [op |-> "add", chunks |-> chunks, url_id |-> url_id,
                       again |-> /\ vs_call.op = "add" /\ vs_ret = TRUE
                                 /\ vs_call.chunks = chunks /\ vs_call.url_id = url_id]
        /\ vs_ret' = TRUE
    /\ UNCHANGED <<now, notStoreVars>>

\* a handler that swallows the failure and goes on to line 80
AddSectionChunksSwallows ==
    /\ \E url_id \in UrlIds : \E chunks \in ListsFor(url_id) :
        /\ chunks # <<>>
        /\ vs_call' = [op |-> "add", chunks |-> chunks, url_id |-> url_id,
                       again |-> FALSE]
    /\ vs_ret' = TRUE
    /\ UNCHANGED <<collection, now, notStoreVars>>

\* lines 82-84: the backend raises inside upsert
AddSectionChunksFails ==
    /\ \E url_id \in UrlIds : \E chunks \in ListsFor(url_id) :
        /\ chunks # <<>>
        /\ vs_call' = [op |-> "add", chunks |-> chunks, url_id |-> url_id,
                       again |-> FALSE]
    /\ vs_ret' = FALSE
    /\ UNCHANGED <<collection, now, notStoreVars>>

\* lines 151-158
DeleteUrlContent ==
    /\ \E url_id \in UrlIds :
        /\ collection' = DeleteWhere(collection, url_id)
        /\ vs_call' = [op |-> "delete", url_id |-> url_id,
                       had |-> { id \in DOMAIN collection :
                                   collection[id].metadata.url_id = url_id }]
    /\ vs_ret' = TRUE
    /\ UNCHANGED <<now, notStoreVars>>

\* lines 159-161: the backend raises inside delete
DeleteUrlContentFails ==
    /\ \E url_id \in UrlIds :
        vs_call' = [op |-> "delete", url_id |-> url_id,
                    had |-> { id \in DOMAIN collection :
                                collection[id].metadata.url_id = url_id }]
    /\ vs_ret' = FALSE
    /\ UNCHANGED <<collection, now, notStoreVars>>

\* Time passes between two calls.
Tick ==
    /\ now < MaxClock
    /\ now' = now + 1
    /\ UNCHANGED <<collection, vs_call, vs_ret, notStoreVars>>

\* lines 29-39: a new, empty collection
StoreFresh ==
    /\ collection = <<>>
    /\ now = 0
    /\ vs_call = NoStoreCall
    /\ vs_ret = TRUE

StoreInit == StoreFresh /\ RagIdle /\ ChunkIdle /\ DbFresh

StoreNext ==
    \/ AddSectionChunks \/ AddSectionChunksFails
    \/ DeleteUrlContent \/ DeleteUrlContentFails
    \/ Tick

StoreSpec == StoreInit /\ [][StoreNext]_vars

(***************************************************************************)
(* search_similar.  The embedding backend is a library: the distance it    *)
(* gives each stored text for the query is an input, and among candidates  *)
(* at the same distance it may return any order.                           *)
(***************************************************************************)
\* Distances (in hundredths) and the relevance 1 / (1 + exp(2 * distance - 1))
\* of line 121 for each, in thousandths.
Distances == {0, 50, 150}

Sigmoid(distance) ==
    CASE distance = 0   -> 731
      [] distance = 50  -> 500
      [] distance = 150 -> 119

\* line 132: size_boost = min(token_count / 512, 1.2)
SizeBoostTokens == 512
BoostCapNum == 6
BoostCapDen == 5
BoostUnit == SizeBoostTokens * BoostCapDen

\* the boost, in units of 1 / BoostUnit
size_boost(token_count) ==
    IF token_count * BoostCapDen < BoostCapNum * SizeBoostTokens
    THEN token_count * BoostCapDen
    ELSE BoostCapNum * SizeBoostTokens

\* lines 131-133: the relevance after the boost, in units of 1 / (1000 * BoostUnit)
boosted(relevance, token_count) ==
    IF token_count > 0 THEN relevance * size_boost(token_count)
    ELSE relevance * BoostUnit

\* lines 123-125: whether a candidate is kept
passes(relevance, min_relevance) == ~(relevance < min_relevance)

\* All orders of the ids in S by non-decreasing distance.
RECURSIVE NearestFirst(_, _, _)
NearestFirst(S, coll, dist) ==
    IF S = {} THEN { <<>> }
    ELSE UNION { { <<m>> \o t : t \in NearestFirst(S \ {m}, coll, dist) } :
                 m \in { m \in S : \A x \in S :
                           dist[coll[m].document] <= dist[coll[x].document] } }

\* lines 104-112: collection.query(n_results = k, where = ...), url_id 0 for None
QueryResults(coll, url_id, k, dist) ==
    LET matching == { id \in DOMAIN coll : url_id = 0 \/ coll[id].metadata.url_id = url_id }
    IN  { SubSeq(t, 1, IF Len(t) < k THEN Len(t) ELSE k) :
            t \in NearestFirst(matching, coll, dist) }

\* lines 117-140: the scored candidates that pass min_relevance, in backend order
RECURSIVE Scored(_, _, _, _)
Scored(ids, coll, dist, min_relevance) ==
    IF ids = <<>> THEN <<>>
    ELSE LET id == Head(ids)
             relevance == Sigmoid(dist[coll[id].document])
             token_count == coll[id].metadata.token_count
             rest == Scored(Tail(ids), coll, dist, min_relevance)
         IN  IF passes(relevance, min_relevance)
             THEN << [id |-> id, content |-> coll[id].document,
                      metadata |-> coll[id].metadata,
                      relevance |-> boosted(relevance, token_count)] >> \o rest
             ELSE rest

\* the candidates left in the order the backend gave them
InsertLast(sorted, d) == Append(sorted, d)

\* line 143: documents.sort(key = relevance, reverse = True), a stable sort
RECURSIVE InsertByRelevance(_, _)
InsertByRelevance(sorted, d) ==
    IF sorted = <<>> THEN <<d>>
    ELSE IF Head(sorted).relevance >= d.relevance
    THEN <<Head(sorted)>> \o InsertByRelevance(Tail(sorted), d)
    ELSE <<d>> \o sorted

RECURSIVE SortByRelevance(_)
SortByRelevance(docs) ==
    IF docs = <<>> THEN <<>>
    ELSE InsertByRelevance(SortByRelevance(SubSeq(docs, 1, Len(docs) - 1)), docs[Len(docs)])

\* lines 142-144
search_result(ids, coll, dist, min_relevance, n_results) ==
    LET documents == SortByRelevance(Scored(ids, coll, dist, min_relevance))
    IN  SubSeq(documents, 1, IF Len(documents) < n_results THEN Len(documents) ELSE n_results)

SearchDocs == StoreDocs \cup { StoreDoc("note", 0) }
SearchTexts == { d.content : d \in SearchDocs }

MaxResults == 2
MinRelevances == {0, 600}

\* lines 102-144: one call of search_similar that the backend answers
search_similar(url_id, n_results, min_relevance, dist) ==
    \E ids \in QueryResults(collection, url_id, n_results * 2, dist) :
        /\ vs_call' = [op |-> "search", url_id |-> url_id, n_results |-> n_results,
                       min_relevance |-> min_relevance, dist |-> dist,
                       candidates |-> ids]
        /\ vs_ret' = search_result(ids, collection, dist, min_relevance, n_results)

\* lines 102-112 and 146-148: one call of search_similar in which the backend raises
search_similar_fails(url_id, n_results, min_relevance) ==
    /\ vs_call' = [op |-> "search", url_id |-> url_id, n_results |-> n_results,
                   min_relevance |-> min_relevance, dist |-> <<>>, candidates |-> <<>>]
    /\ vs_ret' = <<>>

\* lines 86-144: search_similar when the backend answers
SearchSimilar ==
    /\ \E url_id \in UrlIds \cup {0}, n_results \in 1..MaxResults,
          min_relevance \in MinRelevances, dist \in [SearchTexts -> Distances] :
        search_similar(url_id, n_results, min_relevance, dist)
    /\ UNCHANGED <<collection, now, notStoreVars>>

\* lines 146-148: the backend raises inside query
SearchSimilarFails ==
    /\ \E url_id \in UrlIds \cup {0}, n_results \in 1..MaxResults,
          min_relevance \in MinRelevances :
        search_similar_fails(url_id, n_results, min_relevance)
    /\ UNCHANGED <<collection, now, notStoreVars>>

RECURSIVE SearchLists(_)
SearchLists(n) ==
    IF n = 0 THEN { <<>> }
    ELSE SearchLists(n - 1) \cup { Append(l, d) : l \in SearchLists(n - 1), d \in SearchDocs }

\* The collections searched: two sources indexed one after the other.
SearchInit ==
    /\ \E l1 \in SearchLists(MaxDocs), l2 \in SearchLists(1) :
        collection = Upsert(Upsert(<<>>, l1, 1, 0), l2, 2, 0)
    /\ now = 0
    /\ vs_call = NoStoreCall
    /\ vs_ret = TRUE
    /\ RagIdle
    /\ ChunkIdle
    /\ DbFresh

\* search_similar reads the collection and writes nothing: a run is one query.
SearchNext ==
    \/ vs_call.op = "none" /\ SearchSimilar
    \/ vs_call.op = "none" /\ SearchSimilarFails

SearchSpec == SearchInit /\ [][SearchNext]_vars

(***************************************************************************)
(* The pipeline over the vector store: get_answer searches the collection  *)
(* with its defaults (no url filter, min_relevance 0) and goes on with the  *)
(* list search_similar returned, while sources are indexed and deleted and  *)
(* the backend fails at times.                                             *)
(***************************************************************************)
\* The longest history a question is still asked with: one turn is answered.
MaxFailHistory == 1

\* src/utils/rag.py lines 176-181: the search of get_answer, with no url
\* filter (0) and min_relevance 0.  The collection holds no "note".
GetAnswerSearch ==
    /\ rpc = "idle"
    /\ Len(llm_history) <= MaxFailHistory
    /\ \/ \E dist \in { d \in [SearchTexts -> Distances] : d["note"] = 0 } :
            search_similar(0, MaxResults, 0, dist)
       \/ search_similar_fails(0, MaxResults, 0)
    /\ UNCHANGED <<collection, now, notStoreVars>>

\* src/utils/rag.py lines 183-205: get_answer after the search has returned
GetAnswerRest ==
    /\ vs_call.op = "search"
    /\ Len(llm_history) <= MaxFailHistory
    /\ (AnswerNoContext \/ AnswerBegin)

FailInit ==
    /\ RagFresh
    /\ OneConversation
    /\ indexed = {}
    /\ llm_up \in BOOLEAN
    /\ StoreFresh
    /\ ChunkIdle
    /\ DbFresh

\* The sources are indexed and deleted before the first question is asked.
FailNext ==
    \/ call = NoCall /\ AddSectionChunks
    \/ call = NoCall /\ AddSectionChunksFails
    \/ call = NoCall /\ DeleteUrlContent
    \/ call = NoCall /\ DeleteUrlContentFails
    \/ GetAnswerSearch \/ GetAnswerRest
    \/ AnswerComplete \/ AnswerError

FailSpec == FailInit /\ [][FailNext]_vars

(***************************************************************************)
(* The section builder: DocumentScraper._extract_sections, the Section and *)
(* URL rows of the SQLite database, and the Scrape and Delete handlers of  *)
(* the Settings page.  An Optional value is <<>> for None and <<v>> for v. *)
(* A title, a path and a text are sequences of characters.                 *)
(***************************************************************************)
None == <<>>
Some(v) == <<v>>

\* line 45 of src/utils/scraper.py: find_all(['h1', 'h2', 'h3'])
Levels == {1, 2, 3}

\* The headings of a page are told apart by their titles.
TitleOf == <<"A", "B", "C", "D", "E", "F">>

MaxHeadings == 3

\* A heading element of the page: its tag level, its text, its id attribute
\* and the text of the elements that follow it.
Header(i, level) ==
    [name |-> level, text |-> <<TitleOf[i]>>, id |-> <<TitleOf[i]>>,
     following |-> <<"a", " ", "a">>]

RECURSIVE Pages(_)
Pages(n) ==
    IF n = 0 THEN { <<>> }
    ELSE LET shorter == Pages(n - 1)
         IN  shorter \cup { Append(p, Header(Len(p) + 1, l)) : p \in shorter, l \in Levels }

\* src/utils/scraper.py lines 61-84
_process_header(header, order) ==
    [title |-> header.text, content |-> header.following, level |-> header.name,
     url_fragment |-> header.id, id |-> None, url_id |-> None, parent_id |-> None,
     section_order |-> order, depth |-> 0, path |-> None]

\* a loop that pops only the sections of a deeper level, leaving a section of
\* the same level open
RECURSIVE PopDeeper(_, _)
PopDeeper(section_stack, level) ==
    IF section_stack # <<>> /\ section_stack[Len(section_stack)].level > level
    THEN PopDeeper(SubSeq(section_stack, 1, Len(section_stack) - 1), level)
    ELSE section_stack

\* src/utils/scraper.py lines 50-51 (and src/utils/database.py lines 251-252)
RECURSIVE PopStack(_, _)
PopStack(section_stack, level) ==
    IF section_stack # <<>> /\ section_stack[Len(section_stack)].level >= level
    THEN PopStack(SubSeq(section_stack, 1, Len(section_stack) - 1), level)
    ELSE section_stack

\* src/utils/scraper.py lines 45-57: the loop over the headings.  Line 54
\* reads the `id` field of the section on top of the stack as it is then.
\* The stack the loop ends with is handed back beside the list.
RECURSIVE ExtractFrom(_, _, _, _)
ExtractFrom(headers, i, section_stack, sects) ==
    IF i > Len(headers) THEN [sections |-> sects, section_stack |-> section_stack]
    ELSE LET made == _process_header(headers[i], i - 1)
             stack1 == PopStack(section_stack, made.level)
             section == IF stack1 # <<>>
                        THEN [made EXCEPT !.parent_id = stack1[Len(stack1)].id]
                        ELSE made
         IN  ExtractFrom(headers, i + 1, Append(stack1, section), Append(sects, section))

\* src/utils/scraper.py lines 35-59
_extract_sections(headers) == ExtractFrom(headers, 1, <<>>, <<>>).sections

\* src/db/models/section.py lines 62-88: UPDATE when the section has an id,
\* INSERT and take the new row id otherwise
save(section, table, seq) ==
    LET id == IF section.id # None THEN section.id[1] ELSE seq + 1
        row == [id |-> id, url_id |-> section.url_id[1], parent_id |-> section.parent_id,
                title |-> section.title, content |-> section.content,
                level |-> section.level, url_fragment |-> section.url_fragment,
                section_order |-> section.section_order]
    IN  IF section.id # None
        THEN [table |-> { IF r.id = id THEN row ELSE r : r \in table }, seq |-> seq,
              section |-> section]
        ELSE [table |-> table \cup {row}, seq |-> seq + 1,
              section |-> [section EXCEPT !.id = Some(id)]]

\* src/pages/1_Settings.py lines 104-107
RECURSIVE SaveFrom(_, _, _, _, _, _)
SaveFrom(sects, i, url_id, table, seq, saved) ==
    IF i > Len(sects) THEN [table |-> table, seq |-> seq, saved |-> saved]
    ELSE LET section == [sects[i] EXCEPT !.url_id = Some(url_id), !.section_order = i - 1]
             s == save(section, table, seq)
         IN  SaveFrom(sects, i + 1, url_id, s.table, s.seq, Append(saved, s.section))

\* ' > '
PathSep == <<" ", ">", " ">>

\* src/db/models/section.py lines 31-39: the rows joined to the rows of the
\* tree found so far
Children(found, table) ==
    { [row |-> s, depth |-> p.depth + 1, path |-> p.path \o PathSep \o s.title] :
        <<s, p>> \in { sp \in table \X found : sp[1].parent_id = Some(sp[2].row.id) } }

RECURSIVE TreeFrom(_, _)
TreeFrom(found, table) ==
    IF found = {} THEN {} ELSE found \cup TreeFrom(Children(found, table), table)

\* src/db/models/section.py lines 23-40
section_tree(table, url_id) ==
    TreeFrom({ [row |-> r, depth |-> 0, path |-> r.title] :
                 r \in { r \in table : r.url_id = url_id /\ r.parent_id = None } }, table)

\* ORDER BY section_order, depth.  SQLite hands rows of equal keys over in
\* the order the query produced them, which is the order of their ids.
OrderKeyLeq(a, b) ==
    \/ a.row.section_order < b.row.section_order
    \/ a.row.section_order = b.row.section_order /\ a.depth < b.depth
    \/ a.row.section_order = b.row.section_order /\ a.depth = b.depth
           /\ a.row.id <= b.row.id

\* src/db/models/section.py lines 41-43
RECURSIVE OrderedBy(_)
OrderedBy(S) ==
    IF S = {} THEN <<>>
    ELSE LET m == CHOOSE m \in S : \A o \in S : OrderKeyLeq(m, o)
         IN  <<m>> \o OrderedBy(S \ {m})

\* src/db/models/section.py lines 46-60
LoadedSection(t) ==
    [title |-> t.row.title, content |-> t.row.content, level |-> t.row.level,
     url_fragment |-> t.row.url_fragment, id |-> Some(t.row.id),
     url_id |-> Some(t.row.url_id), parent_id |-> t.row.parent_id,
     section_order |-> t.row.section_order, depth |-> t.depth, path |-> Some(t.path)]

\* src/db/models/section.py lines 18-60
get_by_url(table, url_id) ==
    LET o == OrderedBy(section_tree(table, url_id))
    IN  [i \in 1..Len(o) |-> LoadedSection(o[i])]

\* The characters of titles and paths, in code-point order.
Alphabet == <<" ", ">", "A", "B", "C", "D", "E", "F">>
ord(ch) == CHOOSE i \in 1..Len(Alphabet) : Alphabet[i] = ch

\* a < b on Python strings
RECURSIVE StrLess(_, _)
StrLess(a, b) ==
    IF b = <<>> THEN FALSE
    ELSE IF a = <<>> THEN TRUE
    ELSE IF a[1] = b[1] THEN StrLess(Tail(a), Tail(b))
    ELSE ord(a[1]) < ord(b[1])

\* sorted() is stable: an element goes behind the elements that are not greater
InsertByPath(sorted, d) ==
    LET k == Cardinality({ i \in 1..Len(sorted) : ~StrLess(d.path[1], sorted[i].path[1]) })
    IN  SubSeq(sorted, 1, k) \o <<d>> \o SubSeq(sorted, k + 1, Len(sorted))

\* src/utils/text_processing.py line 160: sorted(sections, key=path)
RECURSIVE SortedByPath(_)
SortedByPath(list) ==
    IF list = <<>> THEN <<>>
    ELSE InsertByPath(SortedByPath(SubSeq(list, 1, Len(list) - 1)), list[Len(list)])

\* src/utils/text_processing.py lines 26-35: chunk_section_content on a text
\* within the token budget, as the section texts of these pages all are
short_section_chunks(text) == << Normalize(text) >>

\* src/utils/text_processing.py lines 86-140
process_section_content(section, url) ==
    IF section.content = <<>> THEN <<>>
    ELSE LET titled == section.title \o <<"\n", "\n">> \o section.content
             full_content ==
                 IF section.path # None /\ section.path[1] # <<>>
                 THEN <<"P", "a", "t", "h", ":", " ">> \o section.path[1]
                          \o <<"\n", "\n">> \o titled
                 ELSE titled
             content_chunks == short_section_chunks(full_content)
         IN  [i \in 1..Len(content_chunks) |->
                [content |-> content_chunks[i],
                 metadata |-> [title |-> section.title,
                               section_id |-> section.id[1],
                               level |-> section.level,
                               path |-> section.path[1],
                               url |-> <<url, section.url_fragment>>,
                               chunk_index |-> i - 1,
                               total_chunks |-> Len(content_chunks),
                               token_count |-> estimate_tokens(content_chunks[i])]]]

RECURSIVE DocumentsFrom(_, _, _)
DocumentsFrom(sorted_sections, i, url) ==
    IF i > Len(sorted_sections) THEN <<>>
    ELSE process_section_content(sorted_sections[i], url)
             \o DocumentsFrom(sorted_sections, i + 1, url)

\* src/utils/text_processing.py lines 142-171
prepare_sections_for_indexing(sects, url) == DocumentsFrom(SortedByPath(sects), 1, url)

\* The page a URL points at stays as it is; the page of the second URL has
\* one heading at most.
PagesFor(url_id) == IF url_id = 1 THEN Pages(MaxHeadings) ELSE Pages(1)

\* The rows the sections table is let grow to.
MaxSectionRows == 4

\* src/pages/1_Settings.py lines 50-64 with URL.add (src/db/models/url.py 17-28)
AddUrl ==
    /\ url_seq + 1 \in UrlIds
    /\ url_seq' = url_seq + 1
    /\ \E page \in PagesFor(url_seq + 1) :
        web' = [id \in DOMAIN web \cup {url_seq + 1} |->
                  IF id = url_seq + 1 THEN page ELSE web[id]]
    /\ urls' = [id \in DOMAIN urls \cup {url_seq + 1} |->
                  IF id = url_seq + 1 THEN [last_scraped |-> None] ELSE urls[id]]
    /\ UNCHANGED <<sections, section_seq, saved_sections, scrape_call,
                   storeVars, chunkVars, ragVars, chatVars>>

\* src/pages/1_Settings.py lines 93-134: the Scrape button when the page is
\* fetched.  add_section_chunks returns False when the backend raises.
Scrape ==
    /\ \E url_id \in DOMAIN urls :
        /\ section_seq + Len(web[url_id]) <= MaxSectionRows
        /\ LET page == web[url_id]
               s == SaveFrom(_extract_sections(page), 1, url_id, sections, section_seq, <<>>)
           IN  /\ sections' = s.table
               /\ section_seq' = s.seq
               /\ urls' = [urls EXCEPT ![url_id] = [last_scraped |-> Some(now)]]
               /\ LET loaded == get_by_url(s.table, url_id)
                      documents == prepare_sections_for_indexing(loaded, url_id)
                    IN  /\ saved_sections' = loaded
                        /\ scrape_call' = [op |-> "scrape", url_id |-> url_id,
                                           saved |-> s.saved,
                                           rows_before |-> { r \in sections : r.url_id = url_id }]
                        /\ \E ok \in {TRUE} \cup (IF documents # <<>> THEN {FALSE} ELSE {}) :
                            /\ collection' = IF ok /\ documents # <<>>
                                             THEN Upsert(collection, documents, url_id, now)
                                             ELSE collection
                            /\ vs_call' = [op |-> "add", chunks |-> documents,
                                           url_id |-> url_id,
                                           again |-> /\ ok /\ vs_call.op = "add" /\ vs_ret = TRUE
                                                     /\ vs_call.chunks = documents
                                                     /\ vs_call.url_id = url_id]
                            /\ vs_ret' = ok
    /\ UNCHANGED <<web, url_seq, now, chunkVars, ragVars, chatVars>>

\* src/pages/1_Settings.py lines 96-99: scrape_url returned None
ScrapeFails ==
    /\ urls # <<>>
    /\ UNCHANGED vars

\* src/pages/1_Settings.py lines 139-146: the Delete button
Delete ==
    /\ \E url_id \in DOMAIN urls, ok \in BOOLEAN :
        /\ sections' = { r \in sections : r.url_id # url_id }
        /\ urls' = [id \in DOMAIN urls \ {url_id} |-> urls[id]]
        /\ collection' = IF ok THEN DeleteWhere(collection, url_id) ELSE collection
        /\ vs_call' = [op |-> "delete", url_id |-> url_id,
                       had |-> { id \in DOMAIN collection :
                                   collection[id].metadata.url_id = url_id }]
        /\ vs_ret' = ok
        /\ scrape_call' = [op |-> "none"]
    /\ UNCHANGED <<web, url_seq, section_seq, saved_sections, now, chunkVars, ragVars,
                   chatVars>>

SettingsInit == DbFresh /\ StoreFresh /\ RagIdle /\ ChunkIdle

SettingsNext == AddUrl \/ Scrape \/ ScrapeFails \/ Delete

SettingsSpec == SettingsInit /\ [][SettingsNext]_vars

(***************************************************************************)
(* The section store of src/utils/database.py, a second writer of the same *)
(* database file.  Its DocumentScraper appends each section to the         *)
(* subsections of the section open above it, and Database.save_sections    *)
(* writes the tree row by row.  The tree is kept as the list of its        *)
(* sections in document order: `node` is the position of a section and     *)
(* `parent` the position of the section whose subsections hold it, 0 for a  *)
(* section of the top-level list.                                          *)
(***************************************************************************)

\* src/utils/database.py lines 246-259, with _process_header (lines 263-283)
RECURSIVE ExtractTreeFrom(_, _, _, _)
ExtractTreeFrom(headers, i, section_stack, nodes) ==
    IF i > Len(headers) THEN [sections |-> nodes, section_stack |-> section_stack]
    ELSE LET level == headers[i].name
             stack1 == PopStack(section_stack, level)
             section == [title |-> headers[i].text, content |-> headers[i].following,
                         level |-> level, url_fragment |-> headers[i].id, node |-> i,
                         parent |-> IF stack1 # <<>> THEN stack1[Len(stack1)].node ELSE 0]
         IN  ExtractTreeFrom(headers, i + 1, Append(stack1, section), Append(nodes, section))

\* src/utils/database.py lines 399-400 and 408-431: the sections held by `p`,
\* from the i-th on, each inserted with its position as section_order and
\* followed by its own subsections
RECURSIVE SaveSubsections(_, _, _, _, _, _, _)
SaveSubsections(nodes, p, i, parent_id, url_id, table, seq) ==
    LET held == { j \in 1..Len(nodes) : nodes[j].parent = p }
    IN  IF i > Cardinality(held) THEN [table |-> table, seq |-> seq]
        ELSE LET j == CHOOSE j \in held : Cardinality({ x \in held : x < j }) = i - 1
                 section_id == seq + 1
                 row == [id |-> section_id, url_id |-> url_id, parent_id |-> parent_id,
                         title |-> nodes[j].title, content |-> nodes[j].content,
                         level |-> nodes[j].level, url_fragment |-> nodes[j].url_fragment,
                         section_order |-> i - 1]
                 below == SaveSubsections(nodes, j, 1, Some(section_id), url_id,
                                          table \cup {row}, section_id)
             IN  SaveSubsections(nodes, p, i + 1, parent_id, url_id, below.table, below.seq)

\* src/utils/database.py lines 385-406: Database.save_sections on the sections
\* scrape_url (lines 214-236) returned for the page
save_sections ==
    /\ \E url_id \in DOMAIN urls :
        /\ section_seq + Len(web[url_id]) <= MaxSectionRows
        /\ LET tree == ExtractTreeFrom(web[url_id], 1, <<>>, <<>>).sections
               cleared == { r \in sections : r.url_id # url_id }
               s == SaveSubsections(tree, 0, 1, None, url_id, cleared, section_seq)
           IN  /\ sections' = s.table
               /\ section_seq' = s.seq
        /\ urls' = [urls EXCEPT ![url_id] = [last_scraped |-> Some(now)]]
        /\ scrape_call' = [op |-> "save_sections", url_id |-> url_id]
    /\ UNCHANGED <<web, url_seq, saved_sections, storeVars, chunkVars, ragVars, chatVars>>

\* src/utils/database.py lines 433-475: Database.get_sections, the query of
\* Section.get_by_url
get_sections ==
    /\ \E url_id \in DOMAIN urls :
        /\ saved_sections' = get_by_url(sections, url_id)
        /\ scrape_call' = [op |-> "get_sections", url_id |-> url_id]
    /\ UNCHANGED <<web, urls, url_seq, sections, section_seq, storeVars, chunkVars,
                   ragVars, chatVars>>

\* One URL is managed.
TreeNext ==
    \/ url_seq = 0 /\ AddUrl
    \/ Scrape \/ save_sections \/ get_sections

TreeSpec == SettingsInit /\ [][TreeNext]_vars

(***************************************************************************)
(* The properties the description of the program states, each checked      *)
(* under the specification of the component it is about.                   *)
(***************************************************************************)

\* C1 (ChunkSpec): chunk_section_content terminates for every text, every
\* chunk_size > 0 and every overlap >= 0, and returns a list.  A run is a
\* sequence of steps fixed by its input, so it ends with the list returned
\* exactly when it never raises, never starts a loop iteration at an offset
\* it has started from before and never nests a call on the text of an
\* enclosing call: at every moment it is still running or has returned.
C1_ChunkerTerminates == cpc \in {"call", "loop", "returned"}

\* C10 (ChunkSpec): when the text holds more tokens than chunk_size and the
\* call returns, every chunk of the returned list holds at most 1.5 times
\* chunk_size tokens.
C10_ChunksWithinBudget ==
    (cpc = "returned" /\ estimate_tokens(Normalize(raw)) > chunk_size)
        => \A i \in 1..Len(cresult) : 2 * estimate_tokens(cresult[i]) <= 3 * chunk_size

\* C2 (RagSpec): the grounding context built for a turn contains no chunk
\* whose hash was in the used-chunks set before the turn.
C2_ContextExcludesSeen ==
    call.outcome \in {"running", "answer", "error"}
        => \A i \in 1..Len(call.context) : \A j \in 1..Len(call.chunks) :
             ( /\ call.context[i].content = call.chunks[j].content
               /\ call.context[i].title = call.chunks[j].metadata.title )
                 => _hash_chunk(call.chunks[j]) \notin call.used_before

\* C4 (RagSpec): clear_history leaves the LLM history equal to the single
\* system entry, the UI message list empty and the used-chunks set empty.
C4_ClearResetsAll ==
    call.outcome = "cleared"
        => llm_history = <<SystemItem>> /\ ui_messages = <<>> /\ used_chunks = {}

\* C5 (RagSpec): after every completed get_answer call, whatever its outcome,
\* the LLM history holds at most 1 + 2 * 10 entries and the UI message list
\* at most 2 * 10.
C5_HistoriesBounded ==
    (rpc = "idle" /\ call.outcome \in {"answer", "no_context", "error"})
        => /\ Len(llm_history) <= 1 + 2 * max_turns
           /\ Len(ui_messages) <= 2 * max_turns

\* C6 (RagSpec): when the model call raises, get_answer returns confidence 0.0
\* and no sources, has invoked the model once, and the LLM history has grown
\* by exactly one user entry for the question followed by one assistant entry
\* holding the error answer.
C6_ErrorTurnRecorded ==
    call.outcome = "error"
        => /\ response.confidence = Zero
           /\ response.sources = <<>>
           /\ call.llm_invocations = 1
           /\ Len(llm_history) = Len(call.history_before) + 2
           /\ SubSeq(llm_history, 1, Len(call.history_before)) = call.history_before
           /\ llm_history[Len(llm_history) - 1].role = "user"
           /\ llm_history[Len(llm_history) - 1].content = Msg(call.question)
           /\ llm_history[Len(llm_history)].role = "assistant"
           /\ llm_history[Len(llm_history)].content = response.answer

\* C7 (RagSpec): when get_answer fails in the model call, the used-chunks set
\* is the same after the call as before it.
C7_FailureKeepsUsedChunks ==
    call.outcome = "error" => used_chunks = call.used_before

\* C3 (SearchSpec): every result search_similar returns has a final relevance,
\* the value after the size multiplier, of at least min_relevance.
C3_ResultsReachMinRelevance ==
    vs_call.op = "search"
        => \A i \in 1..Len(vs_ret) :
             vs_ret[i].relevance >= vs_call.min_relevance * BoostUnit

\* C9 (StoreSpec): add_section_chunks called a second time with the same chunk
\* list and the same url_id leaves the set of stored identifiers, and so the
\* chunk count of the collection, as the first call left them.
total_chunks(coll) == Cardinality(DOMAIN coll)

C9_UpsertIdempotent ==
    [][ (vs_call'.op = "add" /\ vs_call'.again)
          => /\ DOMAIN collection' = DOMAIN collection
             /\ total_chunks(collection') = total_chunks(collection) ]_vars

\* a second, successful call with the same non-empty list has been made
C9_SecondCallMade ==
    /\ vs_call.op = "add" /\ vs_call.again /\ vs_ret = TRUE
    /\ vs_call.chunks # <<>>
    /\ \A i \in 1..Len(vs_call.chunks) : <<vs_call.url_id, i - 1>> \in DOMAIN collection

\* the nearest heading before the i-th of strictly lower level, 0 for none
ExpectedParent(page, i) ==
    LET lower == { j \in 1..(i - 1) : page[j].name < page[i].name }
    IN  IF lower = {} THEN 0 ELSE CHOOSE j \in lower : \A k \in lower : k <= j

RECURSIVE ExpectedPath(_, _)
ExpectedPath(page, i) ==
    IF ExpectedParent(page, i) = 0 THEN page[i].text
    ELSE ExpectedPath(page, ExpectedParent(page, i)) \o PathSep \o page[i].text

\* C8 (SettingsSpec): the sections of a scraped page, saved and loaded back
\* by source id, give each heading as parent the nearest preceding heading of
\* strictly lower level, or none, and as path its ancestors' titles and its
\* own joined by ' > '.
C8_SectionsFollowHeadings ==
    scrape_call.op = "scrape"
        => LET page == web[scrape_call.url_id]
               saved == scrape_call.saved
           IN  \A i \in 1..Len(page) : \E k \in 1..Len(saved_sections) :
                 /\ saved_sections[k].id = saved[i].id
                 /\ saved_sections[k].title = page[i].text
                 /\ saved_sections[k].path = Some(ExpectedPath(page, i))
                 /\ saved_sections[k].parent_id =
                        IF ExpectedParent(page, i) = 0 THEN None
                        ELSE saved[ExpectedParent(page, i)].id

\* C11 (ChunkSpec): whenever chunk_section_content returns, for the empty and
\* the whitespace-only text too, the returned list is not empty and none of
\* its chunks is the empty string.
C11_ChunksNonEmpty ==
    cpc = "returned"
        => /\ cresult # <<>>
           /\ \A i \in 1..Len(cresult) : cresult[i] # <<>>

C13_NoContextTurn ==
    call.outcome = "no_context"
        => /\ response = [answer |-> Msg(NoContextMsg), sources |-> <<>>, confidence |-> Zero]
           /\ llm_history = call.history_before \o
                  << [role |-> "user", content |-> Msg(call.question), context |-> <<>>],
                     [role |-> "assistant", content |-> response.answer, context |-> <<>>] >>
           /\ call.llm_invocations = 0
           /\ used_chunks = call.used_before

\* a question found no chunk after earlier turns had filled the used-chunks set
C13_NoContextAfterAnswer ==
    /\ call.outcome = "no_context"
    /\ call.used_before # {}
    /\ Len(call.history_before) > 1

\* C14 (RagSpec): the source list of a successful get_answer has one line per
\* retrieved chunk, and a line carries the already-seen marking (no "[NEW] "
\* prefix) exactly when the hash of its chunk was in the used-chunks set
\* before the turn.
C14_SourcesMarkSeen ==
    call.outcome = "answer"
        => LET shown == ui_messages[Len(ui_messages)].sources
           IN  /\ Len(shown) = Len(call.chunks)
               /\ \A i \in 1..Len(shown) :
                     (shown[i].prefix = "") <=> (_hash_chunk(call.chunks[i]) \in call.used_before)

\* C15 (SearchSpec): the list search_similar returns is in order of
\* non-increasing final relevance, has at most n_results entries, and each
\* entry is a candidate of the backend's over-fetched result, which has at
\* most 2 * n_results candidates, with no candidate returned twice.
C15_ResultsOrderedAndLimited ==
    vs_call.op = "search"
        => /\ Len(vs_ret) <= vs_call.n_results
           /\ Len(vs_call.candidates) <= 2 * vs_call.n_results
           /\ \A i \in 1..(Len(vs_ret) - 1) : vs_ret[i].relevance >= vs_ret[i + 1].relevance
           /\ \A i \in 1..Len(vs_ret) :
                 /\ \E k \in 1..Len(vs_call.candidates) : vs_call.candidates[k] = vs_ret[i].id
                 /\ vs_ret[i].content = collection[vs_ret[i].id].document
                 /\ vs_ret[i].metadata = collection[vs_ret[i].id].metadata
           /\ \A i, j \in 1..Len(vs_ret) : i # j => vs_ret[i].id # vs_ret[j].id

\* a search whose over-fetched candidates were re-ordered by the size boost
\* and cut to n_results
C15_SearchReordersAndCuts ==
    /\ vs_call.op = "search"
    /\ Len(vs_call.candidates) > vs_call.n_results
    /\ Len(vs_ret) = vs_call.n_results
    /\ Len(vs_ret) > 1
    /\ vs_ret[1].relevance > vs_ret[2].relevance
    /\ \E k, l \in 1..Len(vs_call.candidates) :
          /\ k < l
          /\ vs_call.candidates[k] = vs_ret[2].id
          /\ vs_call.candidates[l] = vs_ret[1].id

\* C16 (ChatSpec): whichever way the active conversation was changed, the
\* message sequence sent to the language model for a question holds, besides
\* the system entry, only entries recorded in the conversation the question
\* is asked in, and the used-chunks set holds only hashes added in it.
C16_ConversationsIsolated ==
    rpc = "generating"
        => /\ \A i \in 2..Len(history_conv) : history_conv[i] = current_conversation_id
           /\ \A h \in used_chunks : used_conv[h] = current_conversation_id

\* C17 (FailSpec): a failure of the backend does not leave the vector store:
\* when the backend raises, add_section_chunks returns False, search_similar
\* returns the empty list and delete_url_content returns False; and a
\* get_answer whose search failed in this way gives the insufficient-context
\* answer, without an error answer and without calling the model.
C17_BackendFailuresContained ==
    [][ /\ AddSectionChunksFails => vs_ret' = FALSE
        /\ DeleteUrlContentFails => vs_ret' = FALSE
        /\ SearchSimilarFails => vs_ret' = <<>>
        /\ (vs_call.op = "search" /\ vs_call.dist = <<>> /\ call' # call)
              => /\ call'.outcome = "no_context"
                 /\ call'.llm_invocations = 0
                 /\ response' = [answer |-> Msg(NoContextMsg), sources |-> <<>>,
                                 confidence |-> Zero] ]_vars

\* a get_answer over a collection that holds chunks has answered a failed
\* search with the insufficient-context answer
C17_FailedSearchAnswered ==
    /\ vs_call.op = "search" /\ vs_call.dist = <<>>
    /\ collection # <<>>
    /\ call.outcome = "no_context"
    /\ response.answer = Msg(NoContextMsg)

\* C18 (SettingsSpec): every chunk indexed for a source is stored under the
\* identifier made of the source id and the chunk_index of the chunk's own
\* metadata, and scraping a source again whose page has not changed leaves
\* every chunk of the source under the identifier it had, with its text.
C18_ChunkIdsFollowMetadata ==
    [][ /\ \A id \in DOMAIN collection' :
              id = <<collection'[id].metadata.url_id, collection'[id].metadata.chunk_index>>
        /\ (scrape_call'.op = "scrape" /\ vs_call'.op = "add" /\ vs_ret' = TRUE)
              => \A id \in DOMAIN collection :
                    collection[id].metadata.url_id = scrape_call'.url_id
                        => /\ id \in DOMAIN collection'
                           /\ collection'[id].document = collection[id].document ]_vars

\* C19 (SearchSpec): the size boost is a bonus of at most 20 percent: the
\* final relevance of every returned result is at least the relevance the
\* distance transform gave it and at most 1.2 times that.
C19_SizeBoostIsBonus ==
    vs_call.op = "search"
        => \A i \in 1..Len(vs_ret) :
             LET base == Sigmoid(vs_call.dist[vs_ret[i].content]) * BoostUnit
             IN  /\ vs_ret[i].relevance >= base
                 /\ BoostCapDen * vs_ret[i].relevance <= BoostCapNum * base

\* C20 (StoreSpec): after delete_url_content(s) has returned True, the
\* collection holds no chunk whose metadata url_id is s, and every chunk of
\* another source is there as before, under its identifier, with its text
\* and its metadata; nothing has been added.
C20_DeleteRemovesOnlySource ==
    [][ (vs_call'.op = "delete" /\ vs_ret' = TRUE)
          => /\ \A id \in DOMAIN collection' :
                   collection'[id].metadata.url_id # vs_call'.url_id
             /\ DOMAIN collection' \subseteq DOMAIN collection
             /\ \A id \in DOMAIN collection :
                   collection[id].metadata.url_id # vs_call'.url_id
                       => id \in DOMAIN collection' /\ collection'[id] = collection[id] ]_vars

\* a source that had chunks was deleted while another source keeps its own
C20_DeletedBesideOtherSource ==
    /\ vs_call.op = "delete" /\ vs_ret = TRUE
    /\ vs_call.had # {}
    /\ collection # <<>>
    /\ \A id \in vs_call.had : id \notin DOMAIN collection

\* C21 (RagSpec): the confidence a successful get_answer returns, and the
\* confidence stored on the UI assistant message of the turn, is the sum of
\* the relevance values of all chunks the search returned for the question
\* divided by their number, chunks seen in earlier turns included.
C21_ConfidenceIsMean ==
    call.outcome = "answer"
        => /\ response.confidence.den = Len(call.chunks)
           /\ response.confidence.num = SumRelevance(call.chunks)
           /\ response.sources = call.chunks
           /\ ui_messages[Len(ui_messages)].role = "assistant"
           /\ ui_messages[Len(ui_messages)].confidence = response.confidence

\* a turn answered from two chunks of different relevance, both of them seen
\* in an earlier turn
C21_AnsweredFromSeenChunks ==
    /\ call.outcome = "answer"
    /\ Len(call.chunks) = 2
    /\ call.chunks[1].relevance # call.chunks[2].relevance
    /\ \A i \in 1..2 : _hash_chunk(call.chunks[i]) \in call.used_before
    /\ response.confidence = [num |-> 120, den |-> 2]

\* C22 (LiveSpec): a get_answer call always completes: once the model call
\* has been started, the pipeline is idle again at some later moment, also
\* when the model sends no answer.
C22_GetAnswerCompletes == (rpc = "generating") ~> (rpc = "idle")

\* C23 (TreeSpec): for every heading sequence over levels 1..3, after each
\* heading the stack of open sections has strictly increasing levels from
\* bottom to top; so every stored section that has a parent has a level
\* strictly greater than its parent's, and every loaded section that has a
\* parent has the path of its parent followed by ' > ' and its own title.
C23_SectionsNestByLevel ==
    /\ \A url_id \in DOMAIN web : \A k \in 0..Len(web[url_id]) :
          LET headers == SubSeq(web[url_id], 1, k)
              open == ExtractFrom(headers, 1, <<>>, <<>>).section_stack
              nested == ExtractTreeFrom(headers, 1, <<>>, <<>>).section_stack
          IN  /\ \A a \in 1..(Len(open) - 1) : open[a].level < open[a + 1].level
              /\ \A a \in 1..(Len(nested) - 1) : nested[a].level < nested[a + 1].level
    /\ \A r \in sections :
          r.parent_id # None
              => \E q \in sections : q.id = r.parent_id[1] /\ q.level < r.level
    /\ \A a \in 1..Len(saved_sections) :
          saved_sections[a].parent_id # None
              => \E b \in 1..Len(saved_sections) :
                    /\ saved_sections[b].id = saved_sections[a].parent_id
                    /\ saved_sections[b].level < saved_sections[a].level
                    /\ saved_sections[a].path =
                           Some(saved_sections[b].path[1] \o PathSep \o saved_sections[a].title)

\* the sections of a page were loaded with two sections under one parent: the
\* first of them was popped from the stack when the second was met
C23_SiblingsUnderParent ==
    /\ scrape_call.op = "get_sections"
    /\ \E a, b \in 1..Len(saved_sections) :
          /\ a # b
          /\ saved_sections[a].parent_id # None
          /\ saved_sections[a].parent_id = saved_sections[b].parent_id
          /\ saved_sections[a].depth = 1 /\ saved_sections[b].depth = 1

\* C24 (RagSpec): in every state reached through get_answer, whatever its
\* outcome, through the pruning at its end and through clear_history, the LLM
\* history is not empty, its first entry is the system entry made at
\* initialisation, and no other entry has role system.
C24_SystemEntryLeads ==
    /\ Len(llm_history) >= 1
    /\ llm_history[1] = SystemItem
    /\ \A i \in 2..Len(llm_history) : llm_history[i].role # "system"

\* an answered turn at whose end the history was pruned
C24_PrunedAfterAnswer ==
    /\ call.outcome = "answer"
    /\ Len(call.history_before) + 2 > max_turns * 2 + 1
    /\ Len(llm_history) = max_turns * 2 + 1

\* C25 (ChunkSpec): in every iteration of the chunking loop, the cut offset
\* `end` the iteration chooses, by the sentence-boundary search, by the
\* word-boundary back-off or by the forced cut, is strictly greater than the
\* `start` of the iteration.
C25_EndBeyondStart ==
    (cpc = "loop" /\ Top.start < Len(Top.content))
        => IF Top.start + char_chunk_size >= Len(Top.content)
           THEN Top.start + char_chunk_size > Top.start
           ELSE LET cut == CutEnd(Top.content, Top.start)
                IN  ~cut.err => cut.end > Top.start

\* C26 (RagSpec): after every completed get_answer call, whatever its outcome
\* and whether or not the histories were pruned at its end, the LLM history
\* has exactly one more entry than the UI message list, and the k-th UI
\* message has the role and the content of the (k+1)-th LLM history entry.
C26_HistoriesConsistent ==
    (rpc = "idle" /\ call.outcome \in {"answer", "no_context", "error"})
        => /\ Len(llm_history) = Len(ui_messages) + 1
           /\ \A k \in 1..Len(ui_messages) :
                 k + 1 <= Len(llm_history)
                     => /\ ui_messages[k].role = llm_history[k + 1].role
                        /\ ui_messages[k].content = llm_history[k + 1].content

\* C27 (RagSpec): after any sequence of get_answer calls of any outcomes, the
\* entries of the LLM history behind the system entry alternate strictly
\* user, assistant, user, assistant: the first of them is a user entry, the
\* last an assistant entry, and pruning keeps whole question/answer pairs.
C27_TurnsAlternate ==
    (rpc = "idle" /\ call.outcome \in {"answer", "no_context", "error"})
        => /\ Len(llm_history) % 2 = 1
           /\ \A i \in 2..Len(llm_history) :
                 llm_history[i].role = IF i % 2 = 0 THEN "user" ELSE "assistant"

\* C28 (StoreSpec): add_section_chunks never removes a stored chunk.  After a
\* successful call for source s with a list of n chunks, the identifiers
\* stored for s are exactly s_0 .. s_(m-1), m being the greater of n and the
\* number stored for s before, which is the largest length upserted since
\* the last delete; every chunk of another source and every chunk of s at a
\* position from n on is as it was.  And every chunk stored for a source,
\* those left from an earlier indexing included, is returned by a search over
\* the source that asks for as many results as the source has chunks.
C28_UpsertKeepsChunks ==
    /\ [][ (vs_call'.op = "add" /\ now' = now)
             => LET s == vs_call'.url_id
                    n == Len(vs_call'.chunks)
                    before == { id \in DOMAIN collection : id[1] = s }
                    after == { id \in DOMAIN collection' : id[1] = s }
                    m == IF Cardinality(before) > n THEN Cardinality(before) ELSE n
                IN  /\ DOMAIN collection \subseteq DOMAIN collection'
                    /\ vs_ret' = TRUE
                         => /\ after = { <<s, i>> : i \in 0..(m - 1) }
                            /\ \A id \in DOMAIN collection :
                                  (id[1] # s \/ id[2] >= n)
                                      => collection'[id] = collection[id]
          ]_vars
    /\ [](\A s \in UrlIds :
             LET stored == { id \in DOMAIN collection : id[1] = s }
                 m == Cardinality(stored)
                 nearest == [t \in SearchTexts |-> 0]
             IN  \A ids \in QueryResults(collection, s, m, nearest) :
                    LET found == search_result(ids, collection, nearest, 0, m)
                    IN  \A id \in stored : \E k \in 1..Len(found) : found[k].id = id)

\* a source indexed with two chunks was indexed again, later, with one: the
\* chunk at position 1 is the one of the first indexing
C28_ShorterListReindexed ==
    /\ vs_call.op = "add" /\ vs_ret = TRUE
    /\ Len(vs_call.chunks) = 1
    /\ <<vs_call.url_id, 1>> \in DOMAIN collection
    /\ collection[<<vs_call.url_id, 0>>].metadata.indexed_at = now
    /\ collection[<<vs_call.url_id, 1>>].metadata.indexed_at < now

\* C29 (ChunkSpec): in the chunking loop, for every text, every chunk_size > 0
\* and every overlap with 0 <= overlap < chunk_size, the `start` offset is
\* never negative, and the `start` an iteration leaves for the next one is
\* strictly greater than its own.
C29_StartAdvances ==
    [][ ( /\ overlap < chunk_size
          /\ cpc = "loop" /\ cpc' \in {"loop", "call"}
          /\ Len(cstack') = Len(cstack)
          /\ cstack' # cstack )
          => /\ cstack'[Len(cstack')].start >= 0
             /\ cstack'[Len(cstack')].start > Top.start ]_vars

\* C30 (SettingsSpec): scraping a URL from the Settings page right after it
\* has been scraped, the page being as it was, replaces the stored sections
\* of the URL: the section rows of the URL are exactly the rows the second
\* scrape saved, their number is what it was after the first scrape, and so
\* is the number of chunks indexed for the URL.
C30_RescrapeReplacesSections ==
    [][ ( /\ scrape_call.op = "scrape" /\ scrape_call'.op = "scrape"
          /\ scrape_call'.url_id = scrape_call.url_id
          /\ sections' # sections )
          => LET u == scrape_call'.url_id
                 saved == scrape_call'.saved
             IN  /\ { r.id : r \in { r \in sections' : r.url_id = u } }
                        = { saved[i].id[1] : i \in 1..Len(saved) }
                 /\ Cardinality({ r \in sections' : r.url_id = u })
                        = Cardinality({ r \in sections : r.url_id = u })
                 /\ (vs_ret = TRUE /\ vs_ret' = TRUE)
                       => Cardinality({ id \in DOMAIN collection' : id[1] = u })
                              = Cardinality({ id \in DOMAIN collection : id[1] = u }) ]_vars

====
